---- MODULE Spec2Model ----
(***************************************************************************)
(* A model of dafne-dl's DynamicDLModel (the serialisable model envelope)  *)
(* and of RemoteModelProvider.load_model.                                  *)
(*                                                                         *)
(* An envelope binds a model_id, a timestamp_id, eight behaviour slots     *)
(* (callables) and a runtime instance that holds the weights.  Weights are *)
(* Python lists of numpy arrays: a list of references to array storage.    *)
(* The model keeps that storage in a heap so that aliasing is observable.  *)
(***************************************************************************)
EXTENDS Integers, Sequences, FiniteSets, TLC

VARIABLES
    envs,     \* the DynamicDLModel objects created so far, in creation order
    models,   \* runtime instances (self.model): each a list of heap addresses
    heap,     \* numpy array storage: address -> array (a sequence of numbers)
    file,     \* the byte stream last written by dump() or received, if any
    last,     \* the last call: its arguments and how it ended
    made,     \* for each envelope, the call that created it (history)
    ops       \* number of calls made so far

vars == <<envs, models, heap, file, last, made, ops>>

(***************************************************************************)
(* Bounds of the model.                                                    *)
(***************************************************************************)
\* calls explored from each initial state of the full specification
MaxOps == 2
\* calls explored in the codec and copy scenarios
MaxScenarioOps == 3
\* longest weight sequence drawn as an input of the delta scenario
MaxDepth == 1
\* significand bits of the modelled floating-point format (float32 has 24)
MantissaBits == 3

(***************************************************************************)
(* Optional values: None is <<>>, a value x is <<x>>.                      *)
(***************************************************************************)
None == <<>>
Some(x) == <<x>>
IsNone(o) == o = <<>>
Val(o) == o[1]

(***************************************************************************)
(* numpy arithmetic on float arrays.  Numbers are integers standing for    *)
(* multiples of the format's smallest step; every result of + and - is     *)
(* rounded to MantissaBits significant bits, nearest, ties to even, as     *)
(* IEEE-754 arithmetic does.                                               *)
(***************************************************************************)
RECURSIVE Pow2(_)
Pow2(n) == IF n = 0 THEN 1 ELSE 2 * Pow2(n - 1)

Abs(x) == IF x < 0 THEN -x ELSE x

RECURSIVE Quantum(_)
Quantum(n) == IF n < Pow2(MantissaBits) THEN 1 ELSE 2 * Quantum(n \div 2)

Representable(x) == Abs(x) % Quantum(Abs(x)) = 0

RoundNearestEven(x) ==
    LET n  == Abs(x)
        q  == Quantum(n)
        lo == (n \div q) * q
        r  == n - lo
        up == IF 2 * r > q THEN TRUE
              ELSE IF 2 * r < q THEN FALSE
              ELSE (lo \div q) % 2 = 1
        m  == IF up THEN lo + q ELSE lo
    IN  IF x < 0 THEN -m ELSE m

\* lhs_weights[depth] - rhs_weights[depth], element by element
ArraySub(x, y) == [k \in 1..Len(x) |-> RoundNearestEven(x[k] - y[k])]

\* ArrayAdd with the sign of the second operand slipped
ArrayAddSubtracts(x, y) == [k \in 1..Len(x) |-> RoundNearestEven(x[k] - y[k])]

\* lhs_weights[depth] + rhs_weights[depth], element by element
ArrayAdd(x, y) == [k \in 1..Len(x) |-> RoundNearestEven(x[k] + y[k])]

\* ArrayThreshold with <= for <
ArrayThresholdInclusive(d, threshold) ==
    [k \in 1..Len(d) |-> IF Abs(d[k]) <= threshold THEN 0 ELSE d[k]]

\* delta[np.abs(delta) < threshold] = 0
ArrayThreshold(d, threshold) ==
    [k \in 1..Len(d) |-> IF Abs(d[k]) < threshold THEN 0 ELSE d[k]]

(***************************************************************************)
(* Callables and their source text.                                        *)
(*                                                                         *)
(* A source text is named by a string.  A callable records the text it was *)
(* defined by (name), whether inspect.getsource can read that text from a  *)
(* file (file), the text attached to it as its .source attribute (source)  *)
(* and the globals it runs in: those of its module, or the empty dict that *)
(* source_to_fn executes a text in (globs).                                *)
(***************************************************************************)
NoSource == "<none>"

NoneFn == [kind |-> "none", name |-> NoSource, file |-> FALSE,
           source |-> NoSource, globs |-> "module"]

\* a function defined in an imported module file
ModuleFn(n) == [kind |-> "fn", name |-> n, file |-> TRUE,
                source |-> NoSource, globs |-> "module"]

\* a callable whose text no file holds (built at run time, a REPL definition)
OpaqueFn(n) == [kind |-> "fn", name |-> n, file |-> FALSE,
                source |-> NoSource, globs |-> "module"]

\* a CodeUnit: None, a source text, or the callable object itself
NoneUnit == [kind |-> "none", text |-> NoSource, fn |-> NoneFn]
TextUnit(s) == [kind |-> "text", text |-> s, fn |-> NoneFn]
ObjectUnit(f) == [kind |-> "object", text |-> NoSource, fn |-> f]

fn_to_source(function) ==
    IF function.kind = "none" THEN NoneUnit
    ELSE IF function.file THEN TextUnit(function.name)
    ELSE IF function.source # NoSource THEN TextUnit(function.source)
    ELSE ObjectUnit(function)

\* what exec(source, {}, {}) does with a text: it raises, it defines no
\* callable, or it defines a function
ExecOutcome(text) ==
    CASE text = "def f(:"  -> "raise"
      [] text = "x = 1"    -> "none"
      [] OTHER             -> "fn"

\* source_to_fn without v.source = source
source_to_fn_unattached(source) ==
    IF source.kind = "none" THEN [outcome |-> "ok", fn |-> NoneFn]
    ELSE IF source.kind = "object" THEN [outcome |-> "ok", fn |-> source.fn]
    ELSE IF ExecOutcome(source.text) = "raise"
         THEN [outcome |-> "SyntaxError", fn |-> NoneFn]
    ELSE IF ExecOutcome(source.text) = "none"
         THEN [outcome |-> "ok", fn |-> NoneFn]
    ELSE [outcome |-> "ok",
          fn |-> [kind |-> "fn", name |-> source.text, file |-> FALSE,
                  source |-> NoSource, globs |-> "empty"]]

\* the result is [outcome, fn]: outcome is "ok" or the exception raised
source_to_fn(source) ==
    IF source.kind = "none" THEN [outcome |-> "ok", fn |-> NoneFn]
    ELSE IF source.kind = "object" THEN [outcome |-> "ok", fn |-> source.fn]
    ELSE IF ExecOutcome(source.text) = "raise"
         THEN [outcome |-> "SyntaxError", fn |-> NoneFn]
    ELSE IF ExecOutcome(source.text) = "none"
         THEN [outcome |-> "ok", fn |-> NoneFn]
    ELSE [outcome |-> "ok",
          fn |-> [kind |-> "fn", name |-> source.text, file |-> FALSE,
                  source |-> source.text, globs |-> "empty"]]

(***************************************************************************)
(* Slots.                                                                  *)
(***************************************************************************)
AllSlots == {"init_model_function", "apply_model_function",
             "weights_to_model_function", "model_to_weights_function",
             "calc_delta_function", "apply_delta_function",
             "weight_copy_function", "incremental_learn_function"}

\* the keys dump() writes a slot under
DumpedSlots == {"init_model_function", "apply_model_function",
                "weights_to_model_function", "model_to_weights_function",
                "calc_delta_function", "apply_delta_function",
                "incremental_learn_function"}

\* the defaults of __init__'s keyword arguments
DefaultSlots ==
    [k \in AllSlots |->
        CASE k = "weights_to_model_function" ->
                ModuleFn("default_keras_weights_to_model_function")
          [] k = "model_to_weights_function" ->
                ModuleFn("default_keras_model_to_weights_function")
          [] k = "calc_delta_function" ->
                ModuleFn("default_keras_delta_function")
          [] k = "apply_delta_function" ->
                ModuleFn("default_keras_apply_delta_function")
          [] k = "weight_copy_function" ->
                ModuleFn("default_keras_weight_copy_function")
          [] OTHER -> NoneFn]

(***************************************************************************)
(* The program state the methods act on, as one record, so that a method   *)
(* that calls other methods is the composition of their effects.           *)
(***************************************************************************)
State == [envs |-> envs, models |-> models, heap |-> heap]

Ok(st, res) == [outcome |-> "ok", st |-> st, res |-> res]
Raise(exc, st) == [outcome |-> exc, st |-> st, res |-> 0]

\* the arrays a list of references holds
Arrays(st, refs) == [k \in 1..Len(refs) |-> st.heap[refs[k]]]

\* new numpy arrays with the given contents: [st, refs]
Alloc(st, arrays) ==
    [st   |-> [st EXCEPT !.heap = st.heap \o arrays],
     refs |-> [k \in 1..Len(arrays) |-> Len(st.heap) + k]]

\* the weights a freshly built runtime instance has
InitialWeights == << <<0, 0>> >>

default_keras_weights_to_model_function(st, i, weights) ==
    [st EXCEPT !.models[st.envs[i].model] = weights]

default_keras_model_to_weights_function(st, i) ==
    st.models[st.envs[i].model]

set_weights(st, i, weights) ==
    IF st.envs[i].fns["weights_to_model_function"].kind = "none"
    THEN Raise("TypeError", st)
    ELSE Ok(default_keras_weights_to_model_function(st, i, weights), i)

\* [outcome, refs]
get_weights(st, i) ==
    IF st.envs[i].fns["model_to_weights_function"].kind = "none"
    THEN [outcome |-> "TypeError", refs |-> <<>>]
    ELSE [outcome |-> "ok",
          refs |-> default_keras_model_to_weights_function(st, i)]

\* the arrays envelope i holds (the model's own view, for the properties)
WeightsOf(st, i) == Arrays(st, st.models[st.envs[i].model])

\* self.model = self.init_model_function(): a new runtime instance
init_model(st, i) ==
    LET a == Alloc(st, InitialWeights)
    IN  [a.st EXCEPT !.models = Append(a.st.models, a.refs),
                     !.envs[i].model = Len(a.st.models) + 1]

\* fn_to_source(f), and f.source = src when src is a string
AttachSource(f) ==
    IF fn_to_source(f).kind = "text"
    THEN [f EXCEPT !.source = fn_to_source(f).text]
    ELSE f

\* DynamicDLModel(model_id, ..., weights, timestamp_id); weights is an
\* optional list of arrays (by contents: the caller's own new arrays)
DynamicDLModel(st, model_id, fns, weights, timestamp_id) ==
    LET i    == Len(st.envs) + 1
        self == [model_id |-> model_id, timestamp_id |-> timestamp_id,
                 model |-> 0, fns |-> [k \in AllSlots |-> AttachSource(fns[k])]]
        st1  == [st EXCEPT !.envs = Append(st.envs, self)]
    IN  IF fns["init_model_function"].kind = "none" THEN Raise("TypeError", st)
        ELSE LET st2 == init_model(st1, i)
             IN  IF IsNone(weights) \/ Len(Val(weights)) = 0 THEN Ok(st2, i)
                 ELSE LET a == Alloc(st2, Val(weights))
                          r == set_weights(a.st, i, a.refs)
                      IN  IF r.outcome = "ok" THEN r ELSE Raise(r.outcome, st)

(***************************************************************************)
(* Copies.                                                                 *)
(***************************************************************************)
\* get_empty_copy with model_id and timestamp_id in each other's place
get_empty_copy_swapped(st, i) ==
    DynamicDLModel(st, st.envs[i].timestamp_id, st.envs[i].fns, None,
                   st.envs[i].model_id)

get_empty_copy(st, i) ==
    DynamicDLModel(st, st.envs[i].model_id, st.envs[i].fns, None,
                   st.envs[i].timestamp_id)

\* a weight copy that returns the list of the same arrays
weight_copy_shallow(st, weights_in) == [st |-> st, refs |-> weights_in]

\* weights_out.append(layer.copy()) for each layer: [st, refs]
default_keras_weight_copy_function(st, weights_in) ==
    Alloc(st, Arrays(st, weights_in))

\* self.weight_copy_function is the default or a caller's function that keeps
\* the slot's contract ("create a deep copy of weights"): one fresh array per
\* layer
copy(st, i) ==
    LET out == get_empty_copy(st, i)
        w   == get_weights(out.st, i)
        c   == default_keras_weight_copy_function(out.st, w.refs)
        r   == set_weights(c.st, out.res, c.refs)
    IN  IF out.outcome # "ok" THEN Raise(out.outcome, st)
        ELSE IF w.outcome # "ok" THEN Raise(w.outcome, st)
        ELSE IF r.outcome # "ok" THEN Raise(r.outcome, st)
        ELSE r

(***************************************************************************)
(* The delta engine.                                                       *)
(***************************************************************************)
\* the loop of default_keras_delta_function over arrays of equal shapes
DeltaWeights(lhs_weights, rhs_weights, threshold) ==
    [depth \in 1..Len(lhs_weights) |->
        IF IsNone(threshold)
        THEN ArraySub(lhs_weights[depth], rhs_weights[depth])
        ELSE ArrayThreshold(ArraySub(lhs_weights[depth], rhs_weights[depth]),
                            Val(threshold))]

\* the loop of default_keras_apply_delta_function
SumWeights(lhs_weights, rhs_weights) ==
    [depth \in 1..Len(lhs_weights) |->
        ArrayAdd(lhs_weights[depth], rhs_weights[depth])]

\* raise IncompatibleModelError: the name is looked up in the globals of
\* the function, which are empty when source_to_fn defined it
RaiseIncompatible(fn, st) ==
    Raise(IF fn.globs = "empty" THEN "NameError" ELSE "IncompatibleModelError",
          st)

\* outputObj = lhs.get_empty_copy(); outputObj.set_weights(newWeights)
OutputObj(st, lhs, newWeights) ==
    LET out == get_empty_copy(st, lhs)
        a   == Alloc(out.st, newWeights)
        r   == set_weights(a.st, out.res, a.refs)
    IN  IF out.outcome # "ok" THEN Raise(out.outcome, st)
        ELSE IF r.outcome # "ok" THEN Raise(r.outcome, st)
        ELSE r

default_keras_delta_function(st, fn, lhs, rhs, threshold) ==
    LET lw == get_weights(st, lhs)
        rw == get_weights(st, rhs)
    IN  IF st.envs[lhs].model_id # st.envs[rhs].model_id
        THEN RaiseIncompatible(fn, st)
        ELSE IF lw.outcome # "ok" THEN Raise(lw.outcome, st)
        ELSE IF rw.outcome # "ok" THEN Raise(rw.outcome, st)
        ELSE IF Len(lw.refs) > 0 /\ Len(rw.refs) = 0 THEN Raise("IndexError", st)
        ELSE IF Len(lw.refs) > 0 /\ ~IsNone(threshold) /\ fn.globs = "empty"
             THEN Raise("NameError", st)      \* np is not defined
        ELSE IF Len(lw.refs) > Len(rw.refs) THEN Raise("IndexError", st)
        ELSE OutputObj(st, lhs,
                 DeltaWeights(Arrays(st, lw.refs), Arrays(st, rw.refs),
                              threshold))

default_keras_apply_delta_function(st, fn, lhs, rhs) ==
    LET lw == get_weights(st, lhs)
        rw == get_weights(st, rhs)
    IN  IF st.envs[lhs].model_id # st.envs[rhs].model_id
        THEN RaiseIncompatible(fn, st)
        ELSE IF lw.outcome # "ok" THEN Raise(lw.outcome, st)
        ELSE IF rw.outcome # "ok" THEN Raise(rw.outcome, st)
        ELSE IF Len(lw.refs) > Len(rw.refs) THEN Raise("IndexError", st)
        ELSE OutputObj(st, lhs,
                 SumWeights(Arrays(st, lw.refs), Arrays(st, rw.refs)))

calc_delta(st, lhs, rhs, threshold) ==
    LET fn == st.envs[lhs].fns["calc_delta_function"]
    IN  IF fn.kind = "none" THEN Raise("TypeError", st)
        ELSE default_keras_delta_function(st, fn, lhs, rhs, threshold)

apply_delta(st, lhs, rhs) ==
    LET fn == st.envs[lhs].fns["apply_delta_function"]
    IN  IF fn.kind = "none" THEN Raise("TypeError", st)
        ELSE default_keras_apply_delta_function(st, fn, lhs, rhs)

(***************************************************************************)
(* The codec.                                                              *)
(***************************************************************************)
\* the dict dump() pickles, or the exception get_weights raised:
\* [outcome, artifact]
NoArtifact == [model_id |-> "None", timestamp_id |-> "None", weights |-> <<>>,
               fns |-> [k \in DumpedSlots |-> NoneUnit]]

dump(st, i) ==
    LET w == get_weights(st, i)
    IN  IF w.outcome # "ok" THEN [outcome |-> w.outcome, artifact |-> NoArtifact]
        ELSE [outcome |-> "ok",
              artifact |->
                [model_id |-> st.envs[i].model_id,
                 timestamp_id |-> st.envs[i].timestamp_id,
                 weights |-> Arrays(st, w.refs),
                 fns |-> [k \in DumpedSlots |->
                            fn_to_source(st.envs[i].fns[k])]]]

\* DynamicDLModel.Load: every '_function' entry through source_to_fn, then
\* DynamicDLModel(**inputDict)
Load(st, inputDict) ==
    LET resolved == [k \in DumpedSlots |-> source_to_fn(inputDict.fns[k])]
        fns == [k \in AllSlots |->
                   IF k \in DumpedSlots THEN resolved[k].fn
                   ELSE DefaultSlots[k]]
    IN  IF \E k \in DumpedSlots : resolved[k].outcome # "ok"
        THEN Raise("SyntaxError", st)
        ELSE DynamicDLModel(st, inputDict.model_id, fns,
                            Some(inputDict.weights), inputDict.timestamp_id)

(***************************************************************************)
(* Inputs.                                                                 *)
(***************************************************************************)
ModelIds == {"clf-v1", "leg-v1"}
Timestamps == {"None", "t1"}
SomeWeights == { <<>>, << <<1, 32>> >> }

\* the slots a caller passes to the constructor
UserSlots(cfg) ==
    [k \in AllSlots |->
        CASE k = "init_model_function" -> ModuleFn("init_model")
          [] k = "apply_model_function" ->
                IF cfg = "opaque" THEN OpaqueFn("apply_model")
                ELSE ModuleFn("apply_model")
          [] k = "weight_copy_function" /\ cfg = "custom" ->
                ModuleFn("my_weight_copy")
          [] k = "incremental_learn_function" /\ cfg = "custom" ->
                ModuleFn("my_incremental_learn")
          [] OTHER -> DefaultSlots[k]]

SlotCfgs == {"default", "custom", "opaque"}

NoCall == [op |-> "none", lhs |-> 0, rhs |-> 0, threshold |-> None,
           outcome |-> "ok", res |-> 0, requests |-> <<>>]

Call(op, lhs, rhs, r) ==
    [NoCall EXCEPT !.op = op, !.lhs = lhs, !.rhs = rhs,
                   !.outcome = r.outcome, !.res = r.res]

\* how an envelope came to be: the call, the envelope it was called on (of),
\* its other operand, and the identity the call was given for the result
Made(op, of, rhs, threshold, model_id, timestamp_id) ==
    [op |-> op, of |-> of, rhs |-> rhs, threshold |-> threshold,
     model_id |-> model_id, timestamp_id |-> timestamp_id]

MadeFrom(op, i, rhs, threshold) ==
    Made(op, i, rhs, threshold, envs[i].model_id, envs[i].timestamp_id)

\* the state a call leaves: that of its result when it returned, the state
\* before it when it raised (every operator raises with the state it got)
Commit(r, how) ==
    /\ envs' = r.st.envs
    /\ models' = r.st.models
    /\ heap' = r.st.heap
    /\ made' = IF Len(r.st.envs) > Len(envs) THEN Append(made, how) ELSE made

(***************************************************************************)
(* Byte streams that no dump() of this program wrote: a well-formed dict   *)
(* with one slot's text replaced by a text that does not compile, or by    *)
(* one that defines no callable.                                           *)
(***************************************************************************)
BadTexts == {"def f(:", "x = 1"}

BaseArtifact ==
    [model_id |-> "clf-v1", timestamp_id |-> "t1", weights |-> << <<1, 32>> >>,
     fns |-> [k \in DumpedSlots |-> fn_to_source(UserSlots("custom")[k])]]

Crafted(k, text) == [BaseArtifact EXCEPT !.fns[k] = TextUnit(text)]

\* file holds the dict, the envelope it was dumped from (0: none) and the
\* weights that envelope had when it was dumped
Stream(artifact, origin, snapshot) ==
    Some([artifact |-> artifact, origin |-> origin, snapshot |-> snapshot])

(***************************************************************************)
(* Actions: one per call a client makes.                                   *)
(***************************************************************************)
Construct ==
    \E model_id \in ModelIds, timestamp_id \in Timestamps,
       weights \in {None} \cup {Some(w) : w \in SomeWeights}, cfg \in SlotCfgs :
        LET r == DynamicDLModel(State, model_id, UserSlots(cfg), weights,
                                timestamp_id)
        IN  /\ Commit(r, Made("construct", 0, 0, None, model_id, timestamp_id))
            /\ last' = Call("construct", 0, 0, r)
            /\ UNCHANGED file

InitModel ==
    \E i \in 1..Len(envs) :
        /\ Commit(Ok(init_model(State, i), i), MadeFrom("init_model", i, 0, None))
        /\ last' = Call("init_model", i, 0, Ok(State, i))
        /\ UNCHANGED file

SetWeights ==
    \E i \in 1..Len(envs), w \in SomeWeights :
        LET a == Alloc(State, w)
            r == set_weights(a.st, i, a.refs)
        IN  /\ Commit(IF r.outcome = "ok" THEN r ELSE Raise(r.outcome, State),
                      MadeFrom("set_weights", i, 0, None))
            /\ last' = Call("set_weights", i, 0, r)
            /\ UNCHANGED file

\* w = envs[i].get_weights(); w[k].fill(7): the caller writes into an array
\* that get_weights returned
MutateReturned ==
    \E i \in 1..Len(envs) :
        LET w == get_weights(State, i)
        IN  /\ w.outcome = "ok"
            /\ \E k \in 1..Len(w.refs) :
                 /\ heap' = [heap EXCEPT ![w.refs[k]] =
                                [e \in 1..Len(heap[w.refs[k]]) |-> 7]]
                 /\ last' = Call("mutate", i, 0, Ok(State, i))
            /\ UNCHANGED <<envs, models, file, made>>

GetEmptyCopy ==
    \E i \in 1..Len(envs) :
        LET r == get_empty_copy(State, i)
        IN  /\ Commit(r, MadeFrom("get_empty_copy", i, 0, None))
            /\ last' = Call("get_empty_copy", i, 0, r)
            /\ UNCHANGED file

Copy ==
    \E i \in 1..Len(envs) :
        LET r == copy(State, i)
        IN  /\ Commit(r, MadeFrom("copy", i, 0, None))
            /\ last' = Call("copy", i, 0, r)
            /\ UNCHANGED file

CalcDelta(lhs, rhs, threshold) ==
    LET r == calc_delta(State, lhs, rhs, threshold)
    IN  /\ Commit(r, MadeFrom("calc_delta", lhs, rhs, threshold))
        /\ last' = [Call("calc_delta", lhs, rhs, r) EXCEPT
                       !.threshold = threshold]
        /\ UNCHANGED file

ApplyDelta(lhs, rhs) ==
    LET r == apply_delta(State, lhs, rhs)
    IN  /\ Commit(r, MadeFrom("apply_delta", lhs, rhs, None))
        /\ last' = Call("apply_delta", lhs, rhs, r)
        /\ UNCHANGED file

Thresholds == {None, Some(1), Some(32), Some(33)}

CalcDeltaAny ==
    \E lhs \in 1..Len(envs), rhs \in 1..Len(envs), threshold \in Thresholds :
        CalcDelta(lhs, rhs, threshold)

ApplyDeltaAny ==
    \E lhs \in 1..Len(envs), rhs \in 1..Len(envs) : ApplyDelta(lhs, rhs)

Dump ==
    \E i \in 1..Len(envs) :
        LET d == dump(State, i)
        IN  /\ file' = IF d.outcome = "ok"
                       THEN Stream(d.artifact, i, WeightsOf(State, i))
                       ELSE file
            /\ last' = Call("dump", i, 0, [outcome |-> d.outcome, res |-> 0])
            /\ UNCHANGED <<envs, models, heap, made>>

Receive ==
    \E k \in DumpedSlots, text \in BadTexts :
        /\ file' = Stream(Crafted(k, text), 0, BaseArtifact.weights)
        /\ last' = [NoCall EXCEPT !.op = "receive"]
        /\ UNCHANGED <<envs, models, heap, made>>

MadeByLoad ==
    Made("load", Val(file).origin, 0, None, Val(file).artifact.model_id,
         Val(file).artifact.timestamp_id)

Loads ==
    /\ ~IsNone(file)
    /\ LET r == Load(State, Val(file).artifact)
       IN  /\ Commit(r, MadeByLoad)
           /\ last' = Call("load", Val(file).origin, 0, r)
    /\ UNCHANGED file

\* RemoteModelProvider.load_model: the server answers each of the two
\* requests with ok or with an error status; the body of a successful
\* get_model is the byte stream in file.  A failed info_model leaves
\* latest_timestamp unbound, and building the second request raises.
load_model(st, info_ok, get_ok, content) ==
    IF ~info_ok THEN Raise("UnboundLocalError", st)
    ELSE IF ~get_ok THEN Raise("None", st)
    ELSE Load(st, content)

LoadModel ==
    \E info_ok \in BOOLEAN, get_ok \in BOOLEAN :
        /\ get_ok => ~IsNone(file)
        /\ LET r == load_model(State, info_ok, get_ok, Val(file).artifact)
           IN  /\ Commit(r, MadeByLoad)
               /\ last' = [Call("load_model", IF info_ok THEN 1 ELSE 0,
                                IF get_ok THEN 1 ELSE 0, r) EXCEPT
                              !.requests = IF info_ok
                                           THEN <<"info_model", "get_model">>
                                           ELSE <<"info_model">>]
        /\ UNCHANGED file

(***************************************************************************)
(* Specifications.                                                         *)
(*                                                                         *)
(* Spec: every call, from a process that holds no envelope yet, MaxOps     *)
(* calls deep.                                                             *)
(***************************************************************************)
EmptyState == [envs |-> <<>>, models |-> <<>>, heap |-> <<>>]

Holds(st, how) ==
    /\ envs = st.envs
    /\ models = st.models
    /\ heap = st.heap
    /\ made = how
    /\ file = None
    /\ last = NoCall
    /\ ops = 0

Init == Holds(EmptyState, <<>>)

Step(A) == ops < MaxOps /\ ops' = ops + 1 /\ A

Next ==
    \/ Step(Construct)
    \/ Step(InitModel)
    \/ Step(SetWeights)
    \/ Step(MutateReturned)
    \/ Step(GetEmptyCopy)
    \/ Step(Copy)
    \/ Step(CalcDeltaAny)
    \/ Step(ApplyDeltaAny)
    \/ Step(Dump)
    \/ Step(Receive)
    \/ Step(Loads)
    \/ Step(LoadModel)

Spec == Init /\ [][Next]_vars

(***************************************************************************)
(* SpecCodec and SpecCopy: one envelope has been constructed; the codec    *)
(* calls, or the copy calls, MaxScenarioOps calls deep.                    *)
(***************************************************************************)
InitOne ==
    \E timestamp_id \in Timestamps, cfg \in SlotCfgs,
       weights \in {None, Some(<< <<1, 32>> >>)} :
        Holds(DynamicDLModel(EmptyState, "clf-v1", UserSlots(cfg), weights,
                             timestamp_id).st,
              << Made("construct", 0, 0, None, "clf-v1", timestamp_id) >>)

Scenario(A) == ops < MaxScenarioOps /\ ops' = ops + 1 /\ A

NextCodec ==
    \/ Scenario(SetWeights)
    \/ Scenario(Dump)
    \/ Scenario(Loads)

SpecCodec == InitOne /\ [][NextCodec]_vars

NextCopy ==
    \/ Scenario(SetWeights)
    \/ Scenario(MutateReturned)
    \/ Scenario(InitModel)
    \/ Scenario(GetEmptyCopy)
    \/ Scenario(Copy)

SpecCopy == InitOne /\ [][NextCopy]_vars

(***************************************************************************)
(* SpecDelta: two envelopes A (envs[1]) and B (envs[2]) whose weights were *)
(* set after construction; A is either constructed in this process or      *)
(* loaded from the dump of such an envelope.  The calls are                *)
(* A.calc_delta(B, threshold), A.apply_delta(B) and, on a delta D,         *)
(* D.apply_delta(B).                                                       *)
(***************************************************************************)
DeltaValues == {0, 1, 32}
Elements == {1, 2}
WeightSeqs(depth) == [1..depth -> [Elements -> DeltaValues]]

\* DynamicDLModel(...) followed by set_weights(weights)
ConstructedWith(st, model_id, weights) ==
    LET r == DynamicDLModel(st, model_id, UserSlots("default"), None, "t1")
        a == Alloc(r.st, weights)
    IN  set_weights(a.st, r.res, a.refs).st

InitDelta ==
    \E loaded \in BOOLEAN, rhs_id \in ModelIds, depth \in 0..MaxDepth :
      \E lw \in WeightSeqs(depth), rw \in WeightSeqs(depth) :
        LET a0 == ConstructedWith(EmptyState, "clf-v1", lw)
            a  == IF loaded THEN Load(EmptyState, dump(a0, 1).artifact).st
                  ELSE a0
        IN  Holds(ConstructedWith(a, rhs_id, rw),
                  << Made(IF loaded THEN "load" ELSE "construct", 0, 0, None,
                          "clf-v1", "t1"),
                     Made("construct", 0, 0, None, rhs_id, "t1") >>)

Free(A) == A /\ UNCHANGED ops

NextDelta ==
    \/ Free(last.op = "none" /\ \E threshold \in Thresholds :
                                    CalcDelta(1, 2, threshold))
    \/ Free(last.op = "none" /\ ApplyDelta(1, 2))
    \/ Free(last.op = "calc_delta" /\ last.outcome = "ok"
            /\ ApplyDelta(last.res, 2))

SpecDelta == InitDelta /\ [][NextDelta]_vars

(***************************************************************************)
(* Properties.                                                             *)
(***************************************************************************)
Weights(i) == WeightsOf(State, i)

Range(f) == {f[x] : x \in DOMAIN f}

Positions(w) == {p \in (DOMAIN w) \X Elements : p[2] \in DOMAIN w[p[1]]}

ZeroCount(w) == Cardinality({p \in Positions(w) : w[p[1]][p[2]] = 0})

\* D = A.calc_delta(B, None) and the last call was D.apply_delta(B), on
\* weight sequences of equal length
AppliedBack ==
    /\ last.op = "apply_delta"
    /\ last.outcome = "ok"
    /\ made[last.lhs].op = "calc_delta"
    /\ IsNone(made[last.lhs].threshold)
    /\ made[last.lhs].rhs = last.rhs
    /\ Len(Weights(made[last.lhs].of)) = Len(Weights(last.rhs))

\* C1 as stated: apply_delta(calc_delta(A, B, None), B).get_weights() equals
\* A.get_weights() at every position and element.
C1_ExactInverse ==
    AppliedBack => Weights(last.res) = Weights(made[last.lhs].of)

\* C1 as amended: the result has A's length and equals A at every element
\* whose difference A[i] - B[i] the floating-point format represents
\* exactly (the subtraction does not round).
C1_InverseWhereExact ==
    AppliedBack =>
        LET A == Weights(made[last.lhs].of)
            B == Weights(last.rhs)
            R == Weights(last.res)
        IN  /\ Len(R) = Len(A)
            /\ \A p \in Positions(A) :
                 Representable(A[p[1]][p[2]] - B[p[1]][p[2]])
                     => R[p[1]][p[2]] = A[p[1]][p[2]]

C1_Witness ==
    /\ AppliedBack
    /\ \E p \in Positions(Weights(made[last.lhs].of)) :
         /\ Weights(made[last.lhs].of)[p[1]][p[2]] # Weights(last.rhs)[p[1]][p[2]]
         /\ Weights(last.res)[p[1]][p[2]] = Weights(made[last.lhs].of)[p[1]][p[2]]

\* C2: calc_delta and apply_delta on envelopes of different model_id raise
\* IncompatibleModelError and produce no envelope.
C2_IdentityGuard ==
    (/\ last.op \in {"calc_delta", "apply_delta"}
     /\ envs[last.lhs].model_id # envs[last.rhs].model_id)
        => (last.outcome = "IncompatibleModelError" /\ last.res = 0)

\* every slot of envelope i can be captured as source text
Capturable(i) ==
    \A k \in AllSlots : fn_to_source(envs[i].fns[k]).kind \in {"text", "none"}

\* the last call loaded the dump of an envelope of this process
LoadedDump == last.op = "load" /\ last.lhs # 0

\* C3: Loads(E.dumps()) has E's model_id and timestamp_id and the weights E
\* had, for every weight sequence E holds, the empty one included.
C3_RoundTrip ==
    (LoadedDump /\ Capturable(last.lhs)) =>
        /\ last.outcome = "ok"
        /\ envs[last.res].model_id = envs[last.lhs].model_id
        /\ envs[last.res].timestamp_id = envs[last.lhs].timestamp_id
        /\ Weights(last.res) = Val(file).snapshot

\* C4: every one of the eight slots of Loads(E.dumps()) is the slot E had.
C4_EverySlotRoundTrips ==
    (LoadedDump /\ last.outcome = "ok") =>
        \A k \in AllSlots :
            fn_to_source(envs[last.res].fns[k]) = fn_to_source(envs[last.lhs].fns[k])

StateNext == [envs |-> envs', models |-> models', heap |-> heap']

NoSharing(st, c, e) ==
    /\ st.envs[c].model # st.envs[e].model
    /\ Range(st.models[st.envs[c].model]) \cap Range(st.models[st.envs[e].model]) = {}

\* C5: a copy C of E shares neither its runtime instance nor any array with
\* E, and a weight mutation of one (set_weights, or a write into an array
\* its get_weights returned) leaves the weights of the other unchanged.
C5_CopyIsolation ==
    [][\A c \in 1..Len(envs') :
          made'[c].op = "copy" =>
            /\ NoSharing(StateNext, c, made'[c].of)
            /\ (c <= Len(envs) /\ last'.op \in {"set_weights", "mutate"}) =>
                 /\ last'.lhs = c =>
                      WeightsOf(StateNext, made[c].of) = Weights(made[c].of)
                 /\ last'.lhs = made[c].of =>
                      WeightsOf(StateNext, c) = Weights(c)]_vars

C5_Witness ==
    /\ last.op = "mutate"
    /\ made[last.lhs].op = "copy"
    /\ Weights(last.lhs) # Weights(made[last.lhs].of)

\* one of the slot entries of the dict is a text that does not compile or
\* that defines no callable
UnresolvableEntry(inputDict) ==
    \E k \in DumpedSlots :
        /\ inputDict.fns[k].kind = "text"
        /\ ExecOutcome(inputDict.fns[k].text) \in {"raise", "none"}

\* C6: load() of a dict with an unresolvable slot entry raises and creates
\* no envelope, whichever slot it is.
C6_AllOrNothing ==
    (last.op = "load" /\ UnresolvableEntry(Val(file).artifact))
        => (last.outcome # "ok" /\ last.res = 0)

\* what the claim says an element of the delta is
ClaimedDelta(a, b, threshold) ==
    LET diff == RoundNearestEven(a - b)
    IN  IF ~IsNone(threshold) /\ Abs(diff) < Val(threshold) THEN 0 ELSE diff

Derived == {"copy", "get_empty_copy", "calc_delta", "apply_delta"}

C9_ModelOrNone ==
    last.op = "load_model" =>
        /\ last.requests = <<"info_model", "get_model">>
        /\ last.outcome \in {"ok", "None"}
        /\ (last.lhs = 0 \/ last.rhs = 0) => last.outcome = "None"

\* the texts of the functions the model knows
SlotTexts ==
    {UserSlots(cfg)[k].name : cfg \in SlotCfgs, k \in AllSlots} \ {NoSource}

\* the constructed envelope a chain of dump/load cycles started from
RECURSIVE Root(_)
Root(i) == IF made[i].op = "load" /\ made[i].of # 0 THEN Root(made[i].of) ELSE i

====
